---- MODULE Spec2Model ----
(***************************************************************************)
(* A model of bus-mcp/server.py: the toy path finder (find_path and        *)
(* backtrack over a successor table) and the tool surface built on         *)
(* requests.get (make_one_bus_away_api_call and the registered tools).     *)
(*                                                                         *)
(* Stop identifiers and paths are Python strings; `route + curr_stop` is   *)
(* string concatenation and is modelled by \o on TLA+ strings.             *)
(***************************************************************************)
EXTENDS Bags, FiniteSets, Integers, Sequences, TLC

VARIABLES
    graph,             \* the successor table get_next_stops reads
    start_stop,        \* find_path argument
    end_stop,          \* find_path argument
    next_to_consider,  \* FIFO queue of find_path
    stops_to_here,     \* dict: stop -> set of predecessor stops
    visited,           \* set of expanded stops
    lookups,           \* number of successor lookups made per stop
    pc,                \* "expand" while the loop of find_path runs, then "done"
    paths,             \* outcome of backtrack, once pc = "done"
    tool,              \* the tool being invoked
    tpc,               \* position of the tool invocation
    requests,          \* outbound HTTP requests issued by the invocation
    inflight,          \* requests issued and not yet completed
    response,          \* the HTTP response received
    outcome            \* what the invocation returned or raised

pfvars == <<graph, start_stop, end_stop, next_to_consider, stops_to_here,
            visited, lookups, pc, paths>>
toolvars == <<tool, tpc, requests, inflight, response, outcome>>
vars == <<graph, start_stop, end_stop, next_to_consider, stops_to_here,
          visited, lookups, pc, paths, tool, tpc, requests, inflight, response,
          outcome>>

----------------------------------------------------------------------------
(* Bounds of the model *)

\* longest successor list of a generated graph
MaxSucc == 2
\* most edges (successor list entries) of a generated graph
MaxEdges == 4
\* deepest chain of backtrack frames the interpreter allows
RecursionLimit == 6

----------------------------------------------------------------------------
(* JSON values, as response.json() builds them; numerals keep their text *)

JDict(f) == [t |-> "dict", v |-> f]
JList(q) == [t |-> "list", v |-> q]
JStr(x) == [t |-> "str", v |-> x]
JNum(x) == [t |-> "num", v |-> x]
JSet(S) == [t |-> "set", v |-> S]
JNone == [t |-> "none", v |-> ""]
NotJson == [t |-> "invalid", v |-> ""]

\* response bodies the upstream services may send
BodyEmptyList == "[]"
BodyEmptyDict == "{}"
BodyPlace == "[{\"lat\":\"47.6\",\"lon\":\"-122.3\",\"display_name\":\"Pine St, Seattle\"}]"
BodyStops == "{\"data\":{\"list\":[{\"name\":\"Pine St\",\"lat\":47.61,\"lon\":-122.33}]}}"
BodyArrivals == "{\"data\":{\"entry\":{\"arrivalsAndDepartures\":[{\"tripStatus\":{\"nextStop\":\"1_431\"}}]}}}"
BodyError == "{\"code\":404,\"text\":\"resource not found\"}"
BodyHtml == "<html>Bad Gateway</html>"
Bodies == {BodyEmptyList, BodyEmptyDict, BodyPlace, BodyStops, BodyArrivals,
           BodyError, BodyHtml}
Statuses == {200, 204, 301, 404, 500}

\* response.json(): the parsed body, or NotJson when json decoding fails
JsonLoads(text) ==
    IF text = BodyEmptyList THEN JList(<<>>)
    ELSE IF text = BodyEmptyDict THEN JDict([k \in {} |-> JNone])
    ELSE IF text = BodyPlace THEN
        JList(<<JDict([lat |-> JStr("47.6"), lon |-> JStr("-122.3"),
                       display_name |-> JStr("Pine St, Seattle")])>>)
    ELSE IF text = BodyStops THEN
        JDict([data |-> JDict([list |-> JList(<<
            JDict([name |-> JStr("Pine St"), lat |-> JNum("47.61"),
                   lon |-> JNum("-122.33")])>>)])])
    ELSE IF text = BodyArrivals THEN
        JDict([data |-> JDict([entry |-> JDict([arrivalsAndDepartures |->
            JList(<<JDict([tripStatus |->
                JDict([nextStop |-> JStr("1_431")])])>>)])])])
    ELSE IF text = BodyError THEN
        JDict([code |-> JNum("404"), text |-> JStr("resource not found")])
    ELSE NotJson

\* outcomes of a call: a returned value or a raised exception
Return(v) == [kind |-> "return", status |-> 0, text |-> "", value |-> v]
Raise(e) == [kind |-> e, status |-> 0, text |-> "", value |-> JNone]
HTTPError(status, text) ==
    [kind |-> "HTTPError", status |-> status, text |-> text, value |-> JNone]
NoOutcome == Raise("none")
NoResponse == [status |-> 0, text |-> ""]

\* results of one step inside a tool: a value, or the exception raised
Ok(v) == [err |-> "", val |-> v]
Err(e) == [err |-> e, val |-> JNone]

\* d[key] on a parsed value
Subscript(d, key) ==
    IF d.t # "dict" THEN Err("TypeError")
    ELSE IF key \in DOMAIN d.v THEN Ok(d.v[key])
    ELSE Err("KeyError")

\* d.get(key, default) on a parsed value
Get(d, key, default) ==
    IF d.t # "dict" THEN Err("AttributeError")
    ELSE IF key \in DOMAIN d.v THEN Ok(d.v[key])
    ELSE Ok(default)

\* float(x)
Float(x) ==
    IF x.t = "num" THEN Ok(x)
    ELSE IF x.t = "str" /\ x.v \in {"47.6", "-122.3"} THEN Ok(JNum(x.v))
    ELSE IF x.t = "str" THEN Err("ValueError")
    ELSE Err("TypeError")

\* the elements a for loop over a parsed value visits
Iterate(x) ==
    IF x.t = "list" THEN Ok(x.v)
    ELSE IF x.t = "dict" THEN Ok([i \in 1..Cardinality(DOMAIN x.v) |-> JStr("key")])
    ELSE Err("TypeError")

\* the first exception among the results of a loop, "" when there is none
FirstErr(rs) ==
    IF \A i \in DOMAIN rs : rs[i].err = "" THEN ""
    ELSE rs[CHOOSE i \in DOMAIN rs :
                rs[i].err # "" /\ \A j \in DOMAIN rs : j < i => rs[j].err = ""].err

\* the API client returning the body unparsed
make_one_bus_away_api_call_text(resp) ==
    IF resp.status # 200 THEN HTTPError(resp.status, resp.text)
    ELSE Return(JStr(resp.text))

\* the API client without its status check
make_one_bus_away_api_call_unchecked(resp) ==
    IF JsonLoads(resp.text) = NotJson THEN Raise("JSONDecodeError")
    ELSE Return(JsonLoads(resp.text))

\* the API client, from the response of its GET on
make_one_bus_away_api_call(resp) ==
    IF resp.status # 200 THEN HTTPError(resp.status, resp.text)
    ELSE IF JsonLoads(resp.text) = NotJson THEN Raise("JSONDecodeError")
    ELSE Return(JsonLoads(resp.text))

AddressNotFound == JDict([error |-> JStr("Address not found")])

\* the geocoder wrapper taking the first result without looking for one
geocode_result_unguarded(resp) ==
    IF resp.status # 200 THEN HTTPError(resp.status, "")
    ELSE IF JsonLoads(resp.text) = NotJson THEN Raise("JSONDecodeError")
    ELSE IF JsonLoads(resp.text).t # "list" THEN Raise("KeyError")
    ELSE IF JsonLoads(resp.text).v = <<>> THEN Raise("IndexError")
    ELSE Return(JsonLoads(resp.text).v[1])

\* geocode_address, from the response of its GET on
geocode_result(resp) ==
    IF resp.status = 200
    THEN LET data == JsonLoads(resp.text)
         IN IF data = NotJson THEN Raise("JSONDecodeError")
            ELSE IF data.t \in {"list", "dict"} /\ data.v # <<>>
            THEN IF data.t = "dict" THEN Raise("KeyError")
                 ELSE LET result == data.v[1]
                          lat == Subscript(result, "lat")
                          lon == Subscript(result, "lon")
                          name == Subscript(result, "display_name")
                      IN IF lat.err # "" THEN Raise(lat.err)
                         ELSE IF Float(lat.val).err # "" THEN Raise(Float(lat.val).err)
                         ELSE IF lon.err # "" THEN Raise(lon.err)
                         ELSE IF Float(lon.val).err # "" THEN Raise(Float(lon.val).err)
                         ELSE IF name.err # "" THEN Raise(name.err)
                         ELSE Return(JDict([lat |-> Float(lat.val).val,
                                            lon |-> Float(lon.val).val,
                                            formatted_address |-> name.val]))
            ELSE Return(AddressNotFound)
    ELSE HTTPError(resp.status, "")

Location(lat, lon) == [t |-> "Location", v |-> [latitude |-> lat, longitude |-> lon]]

\* geodesic(a, b).meters of geopy: symmetric, zero between equal points
Geodesic(a, b) ==
    IF a = b THEN JNum("0.0") ELSE [t |-> "meters", v |-> {a, b}]

\* one element of formatted_stops
FormatStop(stop) ==
    LET name == Subscript(stop, "name")
        lat == Subscript(stop, "lat")
        lon == Subscript(stop, "lon")
    IN IF name.err # "" THEN Err(name.err)
       ELSE IF lat.err # "" THEN Err(lat.err)
       ELSE IF lon.err # "" THEN Err(lon.err)
       ELSE Ok([name |-> name.val, location |-> Location(lat.val, lon.val)])

\* find_stops_near_location, from the response of its GET on
stops_near_location_result(initial_location, resp) ==
    LET called == make_one_bus_away_api_call(resp)
        data == Get(called.value, "data", JDict([k \in {} |-> JNone]))
        stops == Get(data.val, "list", JList(<<>>))
        each == Iterate(stops.val)
        formatted == [i \in DOMAIN each.val |-> FormatStop(each.val[i])]
    IN IF called.kind # "return" THEN called
       ELSE IF data.err # "" THEN Raise(data.err)
       ELSE IF stops.err # "" THEN Raise(stops.err)
       ELSE IF each.err # "" THEN Raise(each.err)
       ELSE IF FirstErr(formatted) # "" THEN Raise(FirstErr(formatted))
       ELSE Return(JList([i \in DOMAIN formatted |->
                JDict([initial_location |-> initial_location,
                       stop_name |-> formatted[i].val.name,
                       stop_location |-> formatted[i].val.location,
                       distance_meters |->
                           Geodesic(initial_location, formatted[i].val.location)])]))

\* entry["tripStatus"]["nextStop"]
NextStopOf(entry) ==
    LET status == Subscript(entry, "tripStatus")
    IN IF status.err # "" THEN status ELSE Subscript(status.val, "nextStop")

\* get_next_stop, from the response of its GET on; file_ok tells whether the
\* dump file could be opened for writing
next_stop_result(resp, file_ok) ==
    LET called == make_one_bus_away_api_call(resp)
        data == Subscript(called.value, "data")
        entry == Subscript(data.val, "entry")
        arrivals == Subscript(entry.val, "arrivalsAndDepartures")
        each == Iterate(arrivals.val)
        nexts == [i \in DOMAIN each.val |-> NextStopOf(each.val[i])]
    IN IF called.kind # "return" THEN called
       ELSE IF ~file_ok THEN Raise("FileNotFoundError")
       ELSE IF data.err # "" THEN Raise(data.err)
       ELSE IF entry.err # "" THEN Raise(entry.err)
       ELSE IF arrivals.err # "" THEN Raise(arrivals.err)
       ELSE IF each.err # "" THEN Raise(each.err)
       ELSE IF FirstErr(nexts) # "" THEN Raise(FirstErr(nexts))
       ELSE Return(JSet({nexts[i].val : i \in DOMAIN nexts}))

\* get_current_time, from the response of its GET on: no status check
current_time_result(resp) ==
    IF JsonLoads(resp.text) = NotJson THEN Raise("JSONDecodeError")
    ELSE Return(JsonLoads(resp.text))

----------------------------------------------------------------------------
(* The tool surface *)

PassThroughTools == {"get_stop_details", "get_stop_arrivals",
                     "find_routes_near_location", "get_route_details",
                     "get_route_stops"}
\* the tools that go through make_one_bus_away_api_call
ClientTools == PassThroughTools \cup {"find_stops_near_location", "get_next_stop"}
\* the tools that query the upstream transit API
TransitTools == ClientTools \cup {"get_current_time"}
Tools == TransitTools \cup {"print_hello", "geocode_address"}

Names == {"world", ""}
Locations == {Location(JNum("47.61"), JNum("-122.33")),
              Location(JNum("47.6"), JNum("-122.3"))}

IdleTool ==
    /\ tool = "none"
    /\ tpc = "idle"
    /\ requests = 0
    /\ inflight = 0
    /\ response = NoResponse
    /\ outcome = NoOutcome

Done(result) ==
    /\ outcome' = result
    /\ tpc' = "done"
    /\ UNCHANGED <<tool, requests, inflight, response>>
    /\ UNCHANGED pfvars

\* the host dispatches a call of a registered tool
Invoke ==
    /\ tpc = "idle"
    /\ tool' \in Tools
    /\ tpc' = "running"
    /\ UNCHANGED <<requests, inflight, response, outcome>>
    /\ UNCHANGED pfvars

\* a GET issued twice
SendRequest_twice ==
    /\ tpc = "running"
    /\ tool # "print_hello"
    /\ requests' = requests + 2
    /\ inflight' = inflight + 1
    /\ tpc' = "waiting"
    /\ UNCHANGED <<tool, response, outcome>>
    /\ UNCHANGED pfvars

\* requests.get(...) is called: the one GET of the tool goes out
SendRequest ==
    /\ tpc = "running"
    /\ tool # "print_hello"
    /\ requests' = requests + 1
    /\ inflight' = inflight + 1
    /\ tpc' = "waiting"
    /\ UNCHANGED <<tool, response, outcome>>
    /\ UNCHANGED pfvars

\* requests.get(...) returns the upstream's response
ReceiveResponse ==
    /\ tpc = "waiting"
    /\ \E status \in Statuses, text \in Bodies :
          response' = [status |-> status, text |-> text]
    /\ inflight' = inflight - 1
    /\ tpc' = "received"
    /\ UNCHANGED <<tool, requests, outcome>>
    /\ UNCHANGED pfvars

\* requests.get(...) raises: timeout or connection failure, no response
RequestFails ==
    /\ tpc = "waiting"
    /\ inflight' = inflight - 1
    /\ outcome' = Raise("RequestException")
    /\ tpc' = "done"
    /\ UNCHANGED <<tool, requests, response>>
    /\ UNCHANGED pfvars

print_hello ==
    /\ tpc = "running"
    /\ tool = "print_hello"
    /\ \E input_name \in Names : Done(Return(JStr("Hello " \o input_name \o "!")))

geocode_address ==
    /\ tpc = "received"
    /\ tool = "geocode_address"
    /\ Done(geocode_result(response))

find_stops_near_location ==
    /\ tpc = "received"
    /\ tool = "find_stops_near_location"
    /\ \E initial_location \in Locations :
          Done(stops_near_location_result(initial_location, response))

\* result = make_one_bus_away_api_call(...); return result
get_stop_details ==
    /\ tpc = "received"
    /\ tool = "get_stop_details"
    /\ Done(make_one_bus_away_api_call(response))

\* result = make_one_bus_away_api_call(...); return result
get_stop_arrivals ==
    /\ tpc = "received"
    /\ tool = "get_stop_arrivals"
    /\ Done(make_one_bus_away_api_call(response))

\* result = make_one_bus_away_api_call(...); return result
find_routes_near_location ==
    /\ tpc = "received"
    /\ tool = "find_routes_near_location"
    /\ Done(make_one_bus_away_api_call(response))

\* result = make_one_bus_away_api_call(...); return result
get_route_details ==
    /\ tpc = "received"
    /\ tool = "get_route_details"
    /\ Done(make_one_bus_away_api_call(response))

\* result = make_one_bus_away_api_call(...); return result
get_route_stops ==
    /\ tpc = "received"
    /\ tool = "get_route_stops"
    /\ Done(make_one_bus_away_api_call(response))

get_current_time ==
    /\ tpc = "received"
    /\ tool = "get_current_time"
    /\ Done(current_time_result(response))

get_next_stop ==
    /\ tpc = "received"
    /\ tool = "get_next_stop"
    /\ \E file_ok \in BOOLEAN : Done(next_stop_result(response, file_ok))

----------------------------------------------------------------------------
(* The path finder *)

\* the stops of the hard-coded table
ToyStops == {"S", "A", "B", "C", "D", "E", "F"}
\* the stops of the generated graphs
Stops == {"S", "A", "E"}
AllStops == ToyStops \cup Stops

\* the hard-coded successor table; value stays "" (no successors) otherwise
sample_get_next_stops(stop) ==
    IF stop = "F" THEN <<"D">>
    ELSE IF stop = "D" THEN <<"E">>
    ELSE IF stop = "C" THEN <<"E">>
    ELSE IF stop = "B" THEN <<"E">>
    ELSE IF stop = "A" THEN <<"C", "F", "B">>
    ELSE IF stop = "S" THEN <<"B", "A", "D">>
    ELSE <<>>

ToyGraph == [s \in AllStops |-> sample_get_next_stops(s)]

SeqsUpTo(S, n) == UNION {[1..k -> S] : k \in 0..n}

RECURSIVE SumLen(_, _)
SumLen(g, S) ==
    IF S = {} THEN 0
    ELSE LET s == CHOOSE x \in S : TRUE IN Len(g[s]) + SumLen(g, S \ {s})

\* every successor table over Stops within the bounds
Graphs ==
    {[s \in AllStops |-> IF s \in Stops THEN g[s] ELSE <<>>] :
        g \in {h \in [Stops -> SeqsUpTo(Stops, MaxSucc)] : SumLen(h, Stops) <= MaxEdges}}

\* next_stops = await sample_get_next_stops(stop)
get_next_stops(stop) == graph[stop]

EmptyDict == [k \in {} |-> {}]

\* the same loop with the predecessor set overwritten instead of extended
RECURSIVE ForNextStops_overwrite(_, _, _, _)
ForNextStops_overwrite(sth, queue, stop, next_stops) ==
    IF next_stops = <<>> THEN [sth |-> sth, queue |-> queue]
    ELSE LET next_stop == Head(next_stops)
             s2 == [k \in DOMAIN sth \cup {next_stop} |->
                       IF k = next_stop THEN {stop} ELSE sth[k]]
         IN ForNextStops_overwrite(s2, Append(queue, next_stop), stop,
                                   Tail(next_stops))

\* the for loop of find_path: record stop as a predecessor of each successor
\* and enqueue the successor unconditionally
RECURSIVE ForNextStops(_, _, _, _)
ForNextStops(sth, queue, stop, next_stops) ==
    IF next_stops = <<>> THEN [sth |-> sth, queue |-> queue]
    ELSE LET next_stop == Head(next_stops)
             s1 == IF next_stop \notin DOMAIN sth
                   THEN [k \in DOMAIN sth \cup {next_stop} |->
                            IF k = next_stop THEN {} ELSE sth[k]]
                   ELSE sth
             s2 == [s1 EXCEPT ![next_stop] = @ \cup {stop}]
         IN ForNextStops(s2, Append(queue, next_stop), stop, Tail(next_stops))

\* outcomes of backtrack: a list of paths (kept as a bag, the order of set
\* iteration being unspecified) or the exception that ended it
Returned(b) == [kind |-> "paths", list |-> b]
Raised(e) == [kind |-> e, list |-> EmptyBag]

RECURSIVE SumBags(_, _)
SumBags(S, f) ==
    IF S = {} THEN EmptyBag
    ELSE LET p == CHOOSE x \in S : TRUE IN f[p] (+) SumBags(S \ {p}, f)

\* the concatenation with its operands swapped
AppendStop_swapped(routes, curr_stop) ==
    [x \in {curr_stop \o r : r \in DOMAIN routes} |->
        routes[CHOOSE r \in DOMAIN routes : curr_stop \o r = x]]

\* full_path = route + curr_stop, for every route of the list
AppendStop(routes, curr_stop) ==
    [x \in {r \o curr_stop : r \in DOMAIN routes} |->
        routes[CHOOSE r \in DOMAIN routes : r \o curr_stop = x]]

RECURSIVE backtrack_at(_, _, _, _)
backtrack_at(sth, start, curr_stop, depth) ==
    IF depth > RecursionLimit THEN Raised("RecursionError")
    ELSE IF curr_stop = start THEN Returned(SetToBag({curr_stop}))
    ELSE IF curr_stop \notin DOMAIN sth THEN Raised("KeyError")
    ELSE LET prev_stops == sth[curr_stop]
             sub == [p \in prev_stops |-> backtrack_at(sth, start, p, depth + 1)]
             failed == {p \in prev_stops : sub[p].kind # "paths"}
         IN IF failed # {}
            THEN sub[CHOOSE p \in failed : TRUE]
            ELSE Returned(SumBags(prev_stops,
                     [p \in prev_stops |-> AppendStop(sub[p].list, curr_stop)]))

backtrack(sth, start, curr_stop) == backtrack_at(sth, start, curr_stop, 1)

NoPaths == Raised("none")

\* visited.add(stop), left out
MarkVisited_forgotten(vis, stop) == vis

\* visited.add(stop)
MarkVisited(vis, stop) == vis \cup {stop}

InitPF ==
    /\ \/ /\ graph = ToyGraph
          /\ start_stop \in ToyStops
          /\ end_stop \in ToyStops
       \/ /\ graph \in Graphs
          /\ start_stop \in Stops
          /\ end_stop \in Stops
    /\ next_to_consider = <<start_stop>>
    /\ stops_to_here = EmptyDict
    /\ visited = {}
    /\ lookups = [s \in AllStops |-> 0]
    /\ pc = "expand"
    /\ paths = NoPaths
    /\ IdleTool

\* a popped stop that is already visited is skipped
PopVisited ==
    /\ pc = "expand"
    /\ next_to_consider # <<>>
    /\ Head(next_to_consider) \in visited
    /\ next_to_consider' = Tail(next_to_consider)
    /\ UNCHANGED <<graph, start_stop, end_stop, stops_to_here, visited, lookups,
                   pc, paths>>
    /\ UNCHANGED toolvars

\* a popped stop not yet visited is expanded
PopExpand ==
    /\ pc = "expand"
    /\ next_to_consider # <<>>
    /\ LET stop == Head(next_to_consider)
           r == ForNextStops(stops_to_here, Tail(next_to_consider), stop,
                             get_next_stops(stop))
       IN /\ stop \notin visited
          /\ lookups' = [lookups EXCEPT ![stop] = @ + 1]
          /\ stops_to_here' = r.sth
          /\ next_to_consider' = r.queue
          /\ visited' = MarkVisited(visited, stop)
    /\ UNCHANGED <<graph, start_stop, end_stop, pc, paths>>
    /\ UNCHANGED toolvars

\* the queue is empty: paths = backtrack(stops_to_here, start_stop, end_stop)
Reconstruct ==
    /\ pc = "expand"
    /\ next_to_consider = <<>>
    /\ paths' = backtrack(stops_to_here, start_stop, end_stop)
    /\ pc' = "done"
    /\ UNCHANGED <<graph, start_stop, end_stop, next_to_consider, stops_to_here,
                   visited, lookups>>
    /\ UNCHANGED toolvars

NextPF == PopVisited \/ PopExpand \/ Reconstruct

Spec == InitPF /\ [][NextPF]_vars

\* one iteration of the while loop
ExpandStep == PopVisited \/ PopExpand

\* find_path is one coroutine with nothing else scheduled: while its queue is
\* not empty the loop takes its next iteration
FairSpec == Spec /\ WF_vars(ExpandStep)

----------------------------------------------------------------------------
(* The tool surface as a specification *)

InitTools ==
    /\ IdleTool
    /\ graph = ToyGraph
    /\ start_stop = "S"
    /\ end_stop = "E"
    /\ next_to_consider = <<>>
    /\ stops_to_here = EmptyDict
    /\ visited = {}
    /\ lookups = [s \in AllStops |-> 0]
    /\ pc = "idle"
    /\ paths = NoPaths

NextTools ==
    \/ Invoke
    \/ SendRequest
    \/ ReceiveResponse
    \/ RequestFails
    \/ print_hello
    \/ geocode_address
    \/ find_stops_near_location
    \/ get_stop_details
    \/ get_stop_arrivals
    \/ find_routes_near_location
    \/ get_route_details
    \/ get_route_stops
    \/ get_current_time
    \/ get_next_stop

ToolSpec == InitTools /\ [][NextTools]_vars

\* a response has come back to a finished invocation
Answered == tpc = "done" /\ response # NoResponse

Success == 200..299

----------------------------------------------------------------------------
(* Claims about the API client and the tools *)

\* C3: a call of make_one_bus_away_api_call whose GET receives a status that
\* is not a 2xx success ends in the HTTP error carrying that status and the
\* response body, returns no JSON value and issues no second request.
C3_ClientErrorOnNonSuccess ==
    (Answered /\ tool \in ClientTools /\ response.status \notin Success)
        => /\ outcome.kind = "HTTPError"
           /\ outcome.status = response.status
           /\ outcome.text = response.text
           /\ outcome.value = JNone
           /\ requests = 1

C3_Witness ==
    /\ Answered
    /\ tool = "get_stop_details"
    /\ response = [status |-> 404, text |-> BodyError]
    /\ outcome.kind = "HTTPError"

\* C4: when the GET receives status 200 with a valid JSON body J, the API
\* client returns exactly J, and so do the five pass-through tools.
C4_JsonReturnedVerbatim ==
    (Answered /\ tool \in PassThroughTools /\ response.status = 200
        /\ JsonLoads(response.text) # NotJson)
        => /\ make_one_bus_away_api_call(response).kind = "return"
           /\ make_one_bus_away_api_call(response).value = JsonLoads(response.text)
           /\ outcome.kind = "return"
           /\ outcome.value = JsonLoads(response.text)

C4_Witness ==
    /\ Answered
    /\ tool = "get_route_stops"
    /\ response = [status |-> 200, text |-> BodyStops]
    /\ outcome.kind = "return"
    /\ "data" \in DOMAIN outcome.value.v

\* C5: when the geocoder answers with an empty result list, geocode_address
\* returns the "Address not found" marker and does not end in an error.
C5_EmptyGeocodeIsMarker ==
    (Answered /\ tool = "geocode_address" /\ response.status = 200
        /\ JsonLoads(response.text) = JList(<<>>))
        => /\ outcome.kind = "return"
           /\ outcome.value = JDict([error |-> JStr("Address not found")])

C5_Witness ==
    /\ Answered
    /\ tool = "geocode_address"
    /\ response = [status |-> 200, text |-> BodyEmptyList]
    /\ outcome.kind = "return"

C7_TransitErrorOnNonSuccess ==
    (Answered /\ tool \in TransitTools /\ response.status \notin Success)
        => /\ outcome.kind = "HTTPError"
           /\ outcome.status = response.status
           /\ outcome.text = response.text

----------------------------------------------------------------------------
(* Graph notions the claims are stated with *)

Range(q) == {q[i] : i \in 1..Len(q)}

RECURSIVE ReachFrom(_)
ReachFrom(S) ==
    LET n == S \cup {t \in AllStops : \E s \in S : t \in Range(graph[s])}
    IN IF n = S THEN S ELSE ReachFrom(n)

\* start and every stop reachable from it
Reachable == ReachFrom({start_stop})

\* the strings of the simple paths from the last stop of `str` to `goal`
RECURSIVE SimplePathsFrom(_, _, _, _)
SimplePathsFrom(cur, seen, str, goal) ==
    IF cur = goal THEN {str}
    ELSE UNION {SimplePathsFrom(n, seen \cup {n}, str \o n, goal) :
                    n \in Range(graph[cur]) \ seen}

SimplePaths == SimplePathsFrom(start_stop, {start_stop}, start_stop, end_stop)

\* entries enqueued so far: the seed and every successor of an expanded stop
Enqueued == 1 + SumLen(graph, visited)

\* a stop is at the head of the queue and already visited
AtVisitedHead ==
    /\ pc = "expand"
    /\ next_to_consider # <<>>
    /\ Head(next_to_consider) \in visited

----------------------------------------------------------------------------
(* Claims about the path finder *)

\* C1: on the toy table, find_path from S followed by backtrack to E yields,
\* as a set, exactly the five simple paths S-B-E, S-A-B-E, S-A-C-E, S-D-E and
\* S-A-F-D-E.
C1_ToyPaths ==
    (pc = "done" /\ graph = ToyGraph /\ start_stop = "S" /\ end_stop = "E")
        => /\ paths.kind = "paths"
           /\ BagToSet(paths.list) = {"SBE", "SABE", "SACE", "SDE", "SAFDE"}

C1_Witness ==
    /\ pc = "done" /\ graph = ToyGraph /\ start_stop = "S" /\ end_stop = "E"
    /\ paths.kind = "paths"
    /\ "SAFDE" \in BagToSet(paths.list)

\* C2: when end differs from start and is not reachable from it, the path
\* finder ends by reporting a distinct no-path condition and never with a raw
\* key-lookup failure on the reachability map.
C2_NoPathReported ==
    (pc = "done" /\ end_stop # start_stop /\ end_stop \notin Reachable)
        => /\ paths.kind = "NoPathFound"
           /\ paths.kind # "KeyError"

\* C8: the expansion loop eventually empties its queue; every stop has its
\* successors looked up at most once; a stop popped while already visited is
\* skipped with no lookup and no change to the reachability map.
C8_ExpansionTerminates ==
    /\ <>(next_to_consider = <<>>)
    /\ [](\A s \in AllStops : lookups[s] <= 1)
    /\ [][AtVisitedHead => /\ lookups' = lookups
                           /\ stops_to_here' = stops_to_here
                           /\ next_to_consider' = Tail(next_to_consider)]_vars

\* the loop has ended on a graph with a cycle, after at least one skipped pop
C8_Witness ==
    /\ pc = "expand"
    /\ next_to_consider = <<>>
    /\ Enqueued > Cardinality(visited)
    /\ \E s \in visited : s \in ReachFrom(Range(graph[s]))
    /\ \E s \in visited : Len(graph[s]) > Cardinality(Range(graph[s]))

\* C9: during the expansion every key of stops_to_here has a non-empty
\* predecessor set, each predecessor p of k has been expanded and has k as a
\* successor; when the loop ends p is a predecessor of k exactly when p is
\* start or reachable from it and k is a successor of p; start is a key only
\* if an expanded stop has it as a successor.
C9_ReachabilityMap ==
    /\ \A k \in DOMAIN stops_to_here :
          /\ stops_to_here[k] # {}
          /\ \A p \in stops_to_here[k] :
                /\ p \in visited
                /\ lookups[p] >= 1
                /\ k \in Range(graph[p])
    /\ next_to_consider = <<>> =>
          \A k, p \in AllStops :
              (k \in DOMAIN stops_to_here /\ p \in stops_to_here[k])
                  <=> (p \in Reachable /\ k \in Range(graph[p]))
    /\ start_stop \in DOMAIN stops_to_here =>
          \E p \in visited : start_stop \in Range(graph[p])

\* the loop has ended with start as a key, a stop with two predecessors and
\* an edge out of a stop that was never reached
C9_Witness ==
    /\ pc = "expand"
    /\ next_to_consider = <<>>
    /\ start_stop \in DOMAIN stops_to_here
    /\ \E k \in DOMAIN stops_to_here : Cardinality(stops_to_here[k]) >= 2
    /\ \E s \in AllStops \ Reachable : graph[s] # <<>>

\* C10: when end is reachable from start, also in a graph with a cycle that
\* does not pass through start, backtrack terminates and every path it
\* returns is simple: from start to end along successor edges, no stop twice.
C10_BacktrackSimplePaths ==
    (pc = "done" /\ end_stop \in Reachable)
        => /\ paths.kind = "paths"
           /\ BagToSet(paths.list) \subseteq SimplePaths

====
